---- MODULE Spec2Model ----
(***************************************************************************)
(* Model of the TTR test-generation core: the CTC driver                   *)
(* (Tester::generateCTC / Tester::rewriteATC), the symbolic executor (SEE) *)
(* it runs on every iteration, and the solver bridge (Z3Solver::solve).    *)
(***************************************************************************)
EXTENDS Integers, Sequences, FiniteSets, TLC

(***************************************************************************)
(* Bounds of the model.                                                    *)
(***************************************************************************)
\* longest program handed to the driver / the rewriter
MaxLen == 4
\* integer models are drawn from 0..MaxVal
MaxVal == 2
\* longest concrete-value list handed to the rewriter directly
MaxVals == 2

Dom == 0..MaxVal

(***************************************************************************)
(* IR: expressions (ast.hh ExprType) and statements (StmtType).            *)
(***************************************************************************)
Num(v) == [t |-> "NUM", value |-> v]

Var(n) == [t |-> "VAR", name |-> n]

SymVar(k) == [t |-> "SYMVAR", num |-> k]

FuncCall(n, a) == [t |-> "FUNCCALL", name |-> n, args |-> a]

Tuple(es) == [t |-> "TUPLE", exprs |-> es]

Assign(l, r) == [t |-> "ASSIGN", left |-> l, right |-> r]

Assume(e) == [t |-> "ASSUME", expr |-> e]

AssertStmt(e) == [t |-> "ASSERT", expr |-> e]

\* a thrown runtime_error, as the value of the operation that threw it
Throw(w) == [threw |-> TRUE, what |-> w]

Return(v) == [threw |-> FALSE, val |-> v]

(***************************************************************************)
(* CloneVisitor                                                            *)
(***************************************************************************)
RECURSIVE cloneExpr(_)
cloneExpr(node) ==
    CASE node.t = "VAR" -> Var(node.name)
      [] node.t = "FUNCCALL" ->
            FuncCall(node.name, [i \in 1..Len(node.args) |-> cloneExpr(node.args[i])])
      [] node.t = "NUM" -> Num(node.value)
      [] node.t = "TUPLE" ->
            Tuple([i \in 1..Len(node.exprs) |-> cloneExpr(node.exprs[i])])
      [] node.t = "SYMVAR" -> SymVar(node.num)

\* mutant of cloneStmt: an Assume is cloned into an Assert
cloneStmtAssumeAsAssert(node) ==
    CASE node.t = "ASSIGN" -> Return(Assign(cloneExpr(node.left), cloneExpr(node.right)))
      [] node.t = "ASSUME" -> Return(AssertStmt(cloneExpr(node.expr)))
      [] OTHER -> Throw("Unknown Stmt type in cloneStmt")

\* cloneStmt dispatches on ASSIGN and ASSUME only; every other statement
\* kind reaches the default branch and throws.
cloneStmt(node) ==
    CASE node.t = "ASSIGN" -> Return(Assign(cloneExpr(node.left), cloneExpr(node.right)))
      [] node.t = "ASSUME" -> Return(Assume(cloneExpr(node.expr)))
      [] OTHER -> Throw("Unknown Stmt type in cloneStmt")

(***************************************************************************)
(* Tester: input statements, rewriteATC                                    *)
(***************************************************************************)
isInputStmt(stmt) ==
    /\ stmt.t = "ASSIGN"
    /\ stmt.right.t = "FUNCCALL"
    /\ stmt.right.name = "input"
    /\ Len(stmt.right.args) = 0

\* mutant of isAbstract: any Assign of a function call counts as an input
isAbstractAnyCall(prog) ==
    \E i \in 1..Len(prog) : prog[i].t = "ASSIGN" /\ prog[i].right.t = "FUNCCALL"

isAbstract(prog) == \E i \in 1..Len(prog) : isInputStmt(prog[i])

\* the value the rewriter takes for the input statement it is replacing:
\* concreteValIndex counts the input statements already replaced (0-based).
rewriteValue(ConcreteVals, concreteValIndex) == ConcreteVals[concreteValIndex + 1]

\* the body of the for loop of rewriteATC, from statement i on
RECURSIVE rewriteLoop(_, _, _, _, _)
rewriteLoop(stmts, ConcreteVals, i, concreteValIndex, newStmts) ==
    IF i > Len(stmts) THEN Return(newStmts)
    ELSE LET stmt == stmts[i] IN
         IF isInputStmt(stmt) /\ concreteValIndex < Len(ConcreteVals)
         THEN IF stmt.left.t # "VAR"
              THEN Throw("Expected Var on left side of input assignment")
              ELSE rewriteLoop(stmts, ConcreteVals, i + 1, concreteValIndex + 1,
                     Append(newStmts,
                            Assign(Var(stmt.left.name),
                                   cloneExpr(rewriteValue(ConcreteVals, concreteValIndex)))))
         ELSE LET c == cloneStmt(stmt) IN
              IF c.threw THEN c
              ELSE rewriteLoop(stmts, ConcreteVals, i + 1, concreteValIndex,
                               Append(newStmts, c.val))

\* mutant of rewriteATC: the concrete values are never consumed
rewriteATCIgnoresValues(atc, ConcreteVals) ==
    IF Len(atc) = 0 /\ Len(ConcreteVals) # 0
    THEN Throw("Empty test case but concrete values provided")
    ELSE rewriteLoop(atc, <<>>, 1, 0, <<>>)

\* mutant of rewriteATC: the check of the empty program is missing
rewriteATCNoEmptyCheck(atc, ConcreteVals) ==
    rewriteLoop(atc, ConcreteVals, 1, 0, <<>>)

rewriteATC(atc, ConcreteVals) ==
    IF Len(atc) = 0 /\ Len(ConcreteVals) # 0
    THEN Throw("Empty test case but concrete values provided")
    ELSE rewriteLoop(atc, ConcreteVals, 1, 0, <<>>)

(***************************************************************************)
(* SEE: classification, readiness, symbolicity                             *)
(***************************************************************************)
builtInFunctions ==
    {"Add", "Sub", "Mul", "Div",
     "Eq", "Lt", "Gt", "Le", "Ge", "Neq",
     "=", "==", "!=", "<>", "<", ">", "<=", ">=",
     "And", "Or", "Not", "Implies",
     "and", "or", "not", "&&", "||", "!",
     "input",
     "in", "not_in", "member", "not_member", "contains", "not_contains",
     "union", "intersection", "intersect", "difference", "diff", "minus",
     "subset", "is_subset", "add_to_set", "remove_from_set", "is_empty_set",
     "get", "put", "lookup", "select", "store", "update",
     "contains_key", "has_key",
     "concat", "append_list", "length", "at", "nth",
     "prefix", "suffix", "contains_seq",
     "'"}

isAPI(fc) == fc.name \notin builtInFunctions

\* sigma is the table of the ValueEnvironment: a function from the bound
\* names to their expressions.
hasValue(sigma, name) == name \in DOMAIN sigma

setValue(sigma, name, value) == [n \in (DOMAIN sigma) \cup {name} |->
                                    IF n = name THEN value ELSE sigma[n]]

RECURSIVE isSymbolic(_, _)
isSymbolic(e, sigma) ==
    CASE e.t = "SYMVAR" -> TRUE
      [] e.t = "FUNCCALL" -> \E i \in 1..Len(e.args) : isSymbolic(e.args[i], sigma)
      [] e.t = "NUM" -> FALSE
      [] e.t = "TUPLE" -> \E i \in 1..Len(e.exprs) : isSymbolic(e.exprs[i], sigma)
      [] e.t = "VAR" -> IF hasValue(sigma, e.name)
                        THEN isSymbolic(sigma[e.name], sigma)
                        ELSE FALSE
      [] OTHER -> FALSE

\* mutant of isReadyExpr: a built-in call is ready iff its arguments are
RECURSIVE isReadyExprOfArgs(_, _)
isReadyExprOfArgs(e, sigma) ==
    CASE e.t = "FUNCCALL" ->
            IF e.name = "input" /\ Len(e.args) = 0 THEN TRUE
            ELSE IF isAPI(e)
                 THEN \A i \in 1..Len(e.args) : ~isSymbolic(e.args[i], sigma)
                 ELSE \A i \in 1..Len(e.args) : isReadyExprOfArgs(e.args[i], sigma)
      [] e.t = "NUM" -> TRUE
      [] e.t = "SYMVAR" -> FALSE
      [] e.t = "TUPLE" -> \A i \in 1..Len(e.exprs) : isReadyExprOfArgs(e.exprs[i], sigma)
      [] e.t = "VAR" -> IF ~hasValue(sigma, e.name) THEN FALSE
                        ELSE ~isSymbolic(sigma[e.name], sigma)
      [] OTHER -> FALSE

RECURSIVE isReadyExpr(_, _)
isReadyExpr(e, sigma) ==
    CASE e.t = "FUNCCALL" ->
            IF e.name = "input" /\ Len(e.args) = 0 THEN TRUE
            ELSE IF isAPI(e)
                 THEN \A i \in 1..Len(e.args) : ~isSymbolic(e.args[i], sigma)
                 ELSE TRUE
      [] e.t = "NUM" -> TRUE
      [] e.t = "SYMVAR" -> FALSE
      [] e.t = "TUPLE" -> \A i \in 1..Len(e.exprs) : isReadyExpr(e.exprs[i], sigma)
      [] e.t = "VAR" -> IF ~hasValue(sigma, e.name) THEN FALSE
                        ELSE ~isSymbolic(sigma[e.name], sigma)
      [] OTHER -> FALSE

isReady(s, sigma) ==
    CASE s.t = "ASSIGN" ->
            IF s.right.t = "FUNCCALL"
            THEN IF isAPI(s.right)
                 THEN \A i \in 1..Len(s.right.args) : ~isSymbolic(s.right.args[i], sigma)
                 ELSE TRUE
            ELSE isReadyExpr(s.right, sigma)
      [] s.t = "ASSUME" -> isReadyExpr(s.expr, sigma)
      [] s.t = "DECL" -> TRUE
      [] OTHER -> FALSE

(***************************************************************************)
(* SEE: symbolic evaluation.  The process-global counter of SymVar is      *)
(* threaded through: evaluateExpr returns the value and the counter after  *)
(* the evaluation.                                                         *)
(***************************************************************************)
getNewSymVar(count) == [val |-> SymVar(count), count |-> count + 1]

RECURSIVE evaluateExpr(_, _, _)
RECURSIVE evaluateArgs(_, _, _, _)
\* the argument loops of evaluateExpr: left to right, each result cloned
evaluateArgs(args, sigma, count, done) ==
    IF Len(done) = Len(args) THEN [val |-> done, count |-> count]
    ELSE LET r == evaluateExpr(args[Len(done) + 1], sigma, count)
         IN evaluateArgs(args, sigma, r.count, Append(done, cloneExpr(r.val)))

evaluateExpr(expr, sigma, count) ==
    CASE expr.t = "FUNCCALL" ->
            IF expr.name = "input" /\ Len(expr.args) = 0
            THEN getNewSymVar(count)
            ELSE LET r == evaluateArgs(expr.args, sigma, count, <<>>)
                 IN [val |-> FuncCall(expr.name, r.val), count |-> r.count]
      [] expr.t = "NUM" -> [val |-> Num(expr.value), count |-> count]
      [] expr.t = "SYMVAR" -> [val |-> expr, count |-> count]
      [] expr.t = "VAR" ->
            IF hasValue(sigma, expr.name)
            THEN [val |-> sigma[expr.name], count |-> count]
            ELSE [val |-> expr, count |-> count]
      [] expr.t = "TUPLE" ->
            LET r == evaluateArgs(expr.exprs, sigma, count, <<>>)
            IN [val |-> Tuple(r.val), count |-> r.count]
      [] OTHER -> [val |-> expr, count |-> count]

\* the name under which executeStmt binds the result of an Assign
assignTarget(left) ==
    IF left.t = "VAR" THEN left.name
    ELSE IF left.t = "TUPLE" THEN "_tuple_result" ELSE "_unknown"

\* mutant of conjoin: the conjunction is nested to the left
RECURSIVE conjoinLeftNested(_, _, _)
conjoinLeftNested(C, i, result) ==
    IF i < 1 THEN result
    ELSE conjoinLeftNested(C, i - 1, FuncCall("And", <<result, cloneExpr(C[i])>>))

\* the loop of computePathConstraint: from the last constraint backwards
RECURSIVE conjoin(_, _, _)
conjoin(C, i, result) ==
    IF i < 1 THEN result
    ELSE conjoin(C, i - 1, FuncCall("And", <<cloneExpr(C[i]), result>>))

computePathConstraint(C) ==
    IF Len(C) = 0 THEN FuncCall("Eq", <<Num(1), Num(1)>>)
    ELSE IF Len(C) = 1 THEN cloneExpr(C[1])
    ELSE conjoin(C, Len(C) - 1, cloneExpr(C[Len(C)]))

(***************************************************************************)
(* Solver bridge.  Z3 is modelled on the integer/boolean fragment of the   *)
(* operator table (arithmetic, comparison, connectives); the formulas of   *)
(* the model are well-sorted and are satisfiable over the integers iff     *)
(* they are satisfiable over Dom.  Which satisfying assignment Z3 returns  *)
(* is a nondeterministic choice.                                           *)
(***************************************************************************)
\* name/arity pairs accepted by Z3InputMaker::visitFuncCall
z3Binary ==
    {"Add", "Sub", "Mul", "Eq", "=", "==", "Neq", "!=", "<>",
     "Lt", "<", "Gt", ">", "Le", "<=", "Ge", ">=",
     "And", "and", "&&", "Or", "or", "||", "Implies",
     "in", "member", "contains", "not_in", "not_member", "not_contains",
     "union", "intersection", "intersect", "difference", "diff", "minus",
     "subset", "is_subset", "add_to_set", "remove_from_set",
     "get", "lookup", "select", "contains_key", "has_key",
     "concat", "append_list", "at", "nth", "prefix", "suffix", "contains_seq"}

z3Unary == {"Not", "not", "!", "is_empty_set", "length", "Any", "any"}

z3Ternary == {"put", "store", "update"}

visitFuncCallSupported(node) ==
    \/ node.name \in z3Binary /\ Len(node.args) = 2
    \/ node.name \in z3Unary /\ Len(node.args) = 1
    \/ node.name \in z3Ternary /\ Len(node.args) = 3

\* TRUE iff the translation of e completes without throwing
RECURSIVE makeZ3InputOk(_)
makeZ3InputOk(e) ==
    CASE e.t = "FUNCCALL" ->
            /\ visitFuncCallSupported(e)
            /\ \A i \in 1..Len(e.args) : makeZ3InputOk(e.args[i])
      [] e.t = "TUPLE" -> FALSE
      [] OTHER -> TRUE

\* the Z3 constants registered by the translation (getVariables): one per
\* SymVar number and one per variable name
symKey(k) == [sym |-> TRUE, num |-> k, name |-> ""]

varKey(n) == [sym |-> FALSE, num |-> 0, name |-> n]

RECURSIVE getVariables(_)
getVariables(e) ==
    CASE e.t = "SYMVAR" -> {symKey(e.num)}
      [] e.t = "VAR" -> {varKey(e.name)}
      [] e.t = "FUNCCALL" -> UNION {getVariables(e.args[i]) : i \in 1..Len(e.args)}
      [] OTHER -> {}

\* mutant of z3Eval: Gt is translated as >=
RECURSIVE z3EvalGtAsGe(_, _)
z3EvalGtAsGe(e, m) ==
    CASE e.t = "NUM" -> e.value
      [] e.t = "SYMVAR" -> m[symKey(e.num)]
      [] e.t = "VAR" -> m[varKey(e.name)]
      [] e.t = "FUNCCALL" ->
            LET a == z3EvalGtAsGe(e.args[1], m)
                b == z3EvalGtAsGe(e.args[2], m)
            IN CASE e.name = "Add" -> a + b
                 [] e.name = "Sub" -> a - b
                 [] e.name = "Mul" -> a * b
                 [] e.name \in {"Eq", "=", "=="} -> a = b
                 [] e.name \in {"Neq", "!=", "<>"} -> a # b
                 [] e.name \in {"Lt", "<"} -> a < b
                 [] e.name \in {"Gt", ">"} -> a >= b
                 [] e.name \in {"Le", "<="} -> a <= b
                 [] e.name \in {"Ge", ">="} -> a >= b
                 [] e.name \in {"And", "and", "&&"} -> a /\ b
                 [] e.name \in {"Or", "or", "||"} -> a \/ b
                 [] e.name = "Implies" -> a => b
                 [] e.name \in {"Not", "not", "!"} -> ~a

\* value of a translated term under an assignment of the constants
RECURSIVE z3Eval(_, _)
z3Eval(e, m) ==
    CASE e.t = "NUM" -> e.value
      [] e.t = "SYMVAR" -> m[symKey(e.num)]
      [] e.t = "VAR" -> m[varKey(e.name)]
      [] e.t = "FUNCCALL" ->
            LET a == z3Eval(e.args[1], m)
                b == z3Eval(e.args[2], m)
            IN CASE e.name = "Add" -> a + b
                 [] e.name = "Sub" -> a - b
                 [] e.name = "Mul" -> a * b
                 [] e.name \in {"Eq", "=", "=="} -> a = b
                 [] e.name \in {"Neq", "!=", "<>"} -> a # b
                 [] e.name \in {"Lt", "<"} -> a < b
                 [] e.name \in {"Gt", ">"} -> a > b
                 [] e.name \in {"Le", "<="} -> a <= b
                 [] e.name \in {"Ge", ">="} -> a >= b
                 [] e.name \in {"And", "and", "&&"} -> a /\ b
                 [] e.name \in {"Or", "or", "||"} -> a \/ b
                 [] e.name = "Implies" -> a => b
                 [] e.name \in {"Not", "not", "!"} -> ~a

\* the key of the model map: the printed name of the constant, as the
\* sequence of its character codes ("X" followed by the decimal number)
RECURSIVE Digits(_)
Digits(n) == IF n < 10 THEN <<48 + n>> ELSE Digits(n \div 10) \o <<48 + (n % 10)>>

NameCodes(n) ==
    CASE n = "g" -> <<103>>
      [] n = "r" -> <<114>>
      [] n = "x" -> <<120>>
      [] n = "y" -> <<121>>
      [] n = "z" -> <<122>>

keyString(k) == IF k.sym THEN <<88>> \o Digits(k.num) ELSE NameCodes(k.name)

\* operator< of std::string
RECURSIVE stringLess(_, _)
stringLess(a, b) ==
    IF Len(b) = 0 THEN FALSE
    ELSE IF Len(a) = 0 THEN TRUE
    ELSE IF a[1] # b[1] THEN a[1] < b[1]
    ELSE stringLess(Tail(a), Tail(b))

\* iteration order of std::map<string, ...>: ascending key order
RECURSIVE mapOrder(_)
mapOrder(keys) ==
    IF keys = {} THEN <<>>
    ELSE LET least == CHOOSE k \in keys :
                         \A o \in keys \ {k} : stringLess(keyString(k), keyString(o))
         IN <<least>> \o mapOrder(keys \ {least})

Result(isSat, model) == [isSat |-> isSat, model |-> model]

emptyModel == [k \in {} |-> 0]

\* every outcome Z3Solver::solve can have for the formula
solve(formula) ==
    IF ~makeZ3InputOk(formula) THEN {Throw("Unsupported function")}
    ELSE LET models == {m \in [getVariables(formula) -> Dom] : z3Eval(formula, m)}
         IN IF models = {} THEN {Return(Result(FALSE, emptyModel))}
            ELSE {Return(Result(TRUE, m)) : m \in models}

\* mutant of newConcreteVals: an unsat answer yields a default value
newConcreteValsDefaultOnUnsat(result) ==
    IF result.isSat
    THEN LET order == mapOrder(DOMAIN result.model)
         IN [i \in 1..Len(order) |-> Num(result.model[order[i]])]
    ELSE <<Num(0)>>

\* the extraction loop of generateCTC: the model's values in map order
newConcreteVals(result) ==
    IF result.isSat
    THEN LET order == mapOrder(DOMAIN result.model)
         IN [i \in 1..Len(order) |-> Num(result.model[order[i]])]
    ELSE <<>>

\* mutant of noProgress: the driver recurses whatever the solve produced
noProgressNever(vals) == FALSE

\* generateCTC stops when the solve produced no new concrete value
noProgress(vals) == Len(vals) = 0

(***************************************************************************)
(* Function factory (external collaborator): the callable returned for a   *)
(* real API name yields a literal chosen by the application under test.    *)
(***************************************************************************)
factoryResults(name, concreteArgs) == {Num(v) : v \in Dom}

(***************************************************************************)
(* The programs handed to the driver: sequences over a statement           *)
(* vocabulary in which every variable is assigned before it is used.       *)
(***************************************************************************)
input == FuncCall("input", <<>>)

GtX == FuncCall("Gt", <<Var("x"), Num(0)>>)

LtX == FuncCall("Lt", <<Var("x"), Num(1)>>)

LtY == FuncCall("Lt", <<Var("y"), Num(1)>>)

Statements ==
    { Assign(Var("x"), input),
      Assign(Var("y"), input),
      Assign(Var("x"), Num(0)),
      Assume(GtX),
      Assume(LtX),
      Assume(LtY),
      Assume(FuncCall("And", <<GtX, LtY>>)),
      Assign(Var("r"), FuncCall("f", <<Var("x")>>)),
      AssertStmt(FuncCall("Eq", <<Var("r"), Var("x")>>)) }

RECURSIVE exprVars(_)
exprVars(e) ==
    CASE e.t = "VAR" -> {e.name}
      [] e.t = "FUNCCALL" -> UNION {exprVars(e.args[i]) : i \in 1..Len(e.args)}
      [] OTHER -> {}

usedVars(s) == IF s.t = "ASSIGN" THEN exprVars(s.right) ELSE exprVars(s.expr)

definedVars(s) == IF s.t = "ASSIGN" THEN exprVars(s.left) ELSE {}

WellFormed(prog) ==
    \A i \in 1..Len(prog) : \A v \in usedVars(prog[i]) :
        \E j \in 1..(i - 1) : v \in definedVars(prog[j])

SeqsUpTo(S, n) == UNION {[1..k -> S] : k \in 0..n}

Programs == {prog \in SeqsUpTo(Statements, MaxLen) : WellFormed(prog)}

\* the concrete-value list of the outermost call: empty, as every caller
\* in the repository passes it, or one literal
InitialVals == {<<>>, <<Num(1)>>}

\* the process-global SymVar counter when the driver is entered
InitialCounts == {0, 9}

emptySigma == [n \in {} |-> Num(0)]

noResult == Result(FALSE, emptyModel)

\* no path-constraint formula has been computed
noFormula == [t |-> "NULL"]

countInputs(prog) == Cardinality({i \in 1..Len(prog) : isInputStmt(prog[i])})

(***************************************************************************)
(* State                                                                   *)
(***************************************************************************)
VARIABLES
    pc,              \* position of the driver / the executor
    atc,             \* generateCTC: the program of the current invocation
    ConcreteVals,    \* generateCTC: the value list of the current invocation
    rewritten,       \* generateCTC: the result of rewriteATC
    sigma,           \* SEE::sigma
    pathConstraint,  \* SEE::pathConstraint
    symCount,        \* the SymVar counter
    idx,             \* SEE::execute: the loop index (1-based)
    result,          \* generateCTC: the Result of the last solve
    returned,        \* the program generateCTC returned
    error,           \* what() of the exception that left the operation
    atc0,            \* history: the program of the outermost call
    iterations,      \* history: rewrite steps taken
    seeRuns,         \* history: calls of SEE::execute
    solveCalls,      \* history: calls of Z3Solver::solve
    apiCalls,        \* history: invocations through the function factory
    minted,          \* history: statement index -> SymVar minted for its input()
                     \*          by the last execute
    assumed,         \* history: indices of the Assumes executed by any execute
    executed,        \* history: indices of the statements the last execute ran
    spec,            \* ATCGenerator::generate: the specification
    testString,      \* ATCGenerator::generate: the scenario
    programStmts,    \* ATCGenerator::generate: the statements emitted so far
    genJ,            \* ATCGenerator::generate: the loop index j (1-based)
    genI,            \* ATCGenerator::generate: the loop index i (1-based)
    emissions,       \* history: one record per call of genBlock
    functionFactory, \* SEE::functionFactory: "set", "throwing" or "null"
    formula          \* the expression computePathConstraint returned last

vars == <<pc, atc, ConcreteVals, rewritten, sigma, pathConstraint, symCount, idx,
          result, returned, error, atc0, iterations, seeRuns, solveCalls,
          apiCalls, minted, assumed, executed,
          spec, testString, programStmts, genJ, genI, emissions, functionFactory,
          formula>>

genVars == <<spec, testString, programStmts, genJ, genI, emissions>>

seeVars == <<sigma, pathConstraint, symCount, idx>>

histVars == <<atc0, iterations, seeRuns, solveCalls, apiCalls, minted, assumed,
              executed>>

noMinted == [i \in {} |-> 0]

\* the Spec object when the generator is not running
noSpec == [init |-> <<>>, blocks |-> <<>>]

Init ==
    /\ pc = "entry"
    /\ atc \in Programs
    /\ ConcreteVals \in InitialVals
    /\ rewritten = <<>>
    /\ sigma = emptySigma
    /\ pathConstraint = <<>>
    /\ symCount \in InitialCounts
    /\ idx = 0
    /\ result = noResult
    /\ returned = <<>>
    /\ error = ""
    /\ atc0 = atc
    /\ iterations = 0
    /\ seeRuns = 0
    /\ solveCalls = 0
    /\ apiCalls = <<>>
    /\ minted = noMinted
    /\ assumed = {}
    /\ executed = <<>>
    /\ spec = noSpec
    /\ testString = <<>>
    /\ programStmts = <<>>
    /\ genJ = 0
    /\ genI = 0
    /\ emissions = <<>>
    /\ functionFactory = "set"
    /\ formula = noFormula

(***************************************************************************)
(* Tester::generateCTC                                                     *)
(***************************************************************************)
\* if(!isAbstract(*atc)) return atc;
GenReturnConcrete ==
    /\ pc = "entry"
    /\ ~isAbstract(atc)
    /\ pc' = "done"
    /\ returned' = atc
    /\ UNCHANGED <<atc, ConcreteVals, rewritten, seeVars, result, error, histVars>>
    /\ UNCHANGED genVars
    /\ UNCHANGED functionFactory
    /\ UNCHANGED formula

\* rewritten = rewriteATC(atc, ConcreteVals), an exception leaves the driver
GenRewrite ==
    /\ pc = "entry"
    /\ isAbstract(atc)
    /\ LET r == rewriteATC(atc, ConcreteVals)
       IN IF r.threw
          THEN /\ pc' = "error"
               /\ error' = r.what
               /\ UNCHANGED rewritten
          ELSE /\ pc' = "rewritten"
               /\ rewritten' = r.val
               /\ UNCHANGED error
    /\ iterations' = iterations + 1
    /\ UNCHANGED <<atc, ConcreteVals, seeVars, result, returned,
                   atc0, seeRuns, solveCalls, apiCalls, minted, assumed, executed>>
    /\ UNCHANGED genVars
    /\ UNCHANGED functionFactory
    /\ UNCHANGED formula

(***************************************************************************)
(* SEE::execute, one statement per step                                    *)
(***************************************************************************)
\* mutant of SeeBegin: the path constraint of the last call is kept
SeeBeginKeepsConstraints ==
    /\ pc = "rewritten"
    /\ pc' = "symex"
    /\ idx' = 1
    /\ seeRuns' = seeRuns + 1
    /\ minted' = noMinted
    /\ UNCHANGED <<atc, ConcreteVals, rewritten, sigma, pathConstraint, symCount, result,
                   returned, error, atc0, iterations, solveCalls, apiCalls, assumed>>
    /\ executed' = <<>>
    /\ UNCHANGED genVars
    /\ UNCHANGED functionFactory
    /\ UNCHANGED formula

\* pathConstraint.clear()
SeeBegin ==
    /\ pc = "rewritten"
    /\ pc' = "symex"
    /\ pathConstraint' = <<>>
    /\ idx' = 1
    /\ seeRuns' = seeRuns + 1
    /\ minted' = noMinted
    /\ UNCHANGED <<atc, ConcreteVals, rewritten, sigma, symCount, result, returned,
                   error, atc0, iterations, solveCalls, apiCalls, assumed>>
    /\ executed' = <<>>
    /\ UNCHANGED genVars
    /\ UNCHANGED functionFactory
    /\ UNCHANGED formula

atStmt == pc = "symex" /\ idx <= Len(rewritten)

\* executeStmt, ASSIGN whose right-hand side is not a real API call
SeeAssign ==
    /\ atStmt
    /\ LET stmt == rewritten[idx] IN
       /\ isReady(stmt, sigma)
       /\ stmt.t = "ASSIGN"
       /\ ~(stmt.right.t = "FUNCCALL" /\ isAPI(stmt.right))
       /\ LET r == evaluateExpr(stmt.right, sigma, symCount) IN
          /\ sigma' = setValue(sigma, assignTarget(stmt.left), r.val)
          /\ symCount' = r.count
          /\ minted' = IF isInputStmt(stmt)
                       THEN [i \in (DOMAIN minted) \cup {idx} |->
                                IF i = idx THEN r.val.num ELSE minted[i]]
                       ELSE minted
    /\ idx' = idx + 1
    /\ UNCHANGED <<pc, atc, ConcreteVals, rewritten, pathConstraint, result, returned,
                   error, atc0, iterations, seeRuns, solveCalls, apiCalls, assumed>>
    /\ executed' = Append(executed, idx)
    /\ UNCHANGED genVars
    /\ UNCHANGED functionFactory
    /\ UNCHANGED formula

\* executeStmt, ASSIGN whose right-hand side is a real API call; the factory
\* is there and the function returns
SeeApiCall ==
    /\ atStmt
    /\ functionFactory # "null"
    /\ LET stmt == rewritten[idx] IN
       /\ isReady(stmt, sigma)
       /\ stmt.t = "ASSIGN"
       /\ stmt.right.t = "FUNCCALL" /\ isAPI(stmt.right)
       /\ LET r == evaluateArgs(stmt.right.args, sigma, symCount, <<>>) IN
          /\ symCount' = r.count
          /\ \E res \in factoryResults(stmt.right.name, r.val) :
                sigma' = setValue(sigma, assignTarget(stmt.left), res)
          /\ apiCalls' = Append(apiCalls,
                                [stmt |-> idx, name |-> stmt.right.name, args |-> r.val])
    /\ idx' = idx + 1
    /\ UNCHANGED <<pc, atc, ConcreteVals, rewritten, pathConstraint, result, returned,
                   error, atc0, iterations, seeRuns, solveCalls, minted, assumed>>
    /\ executed' = Append(executed, idx)
    /\ UNCHANGED genVars
    /\ UNCHANGED functionFactory
    /\ UNCHANGED formula

\* a ready ASSIGN of a real API call is the next statement
atApiCall ==
    /\ atStmt
    /\ isReady(rewritten[idx], sigma)
    /\ rewritten[idx].t = "ASSIGN"
    /\ rewritten[idx].right.t = "FUNCCALL"
    /\ isAPI(rewritten[idx].right)

\* what() of the exception that leaves executeStmt when the factory or the
\* function it returned throws: a const char* is wrapped, an exception is
\* thrown on as it is
factoryErrors == {"Function execution failed: api error", "api error"}

\* mutant of SeeApiCallNoFactory: the placeholder value is bound instead
SeeApiCallPlaceholder ==
    /\ atApiCall
    /\ functionFactory = "null"
    /\ LET stmt == rewritten[idx]
           r == evaluateArgs(stmt.right.args, sigma, symCount, <<>>)
       IN /\ symCount' = r.count
          /\ sigma' = setValue(sigma, assignTarget(stmt.left), Num(1))
    /\ idx' = idx + 1
    /\ executed' = Append(executed, idx)
    /\ UNCHANGED <<pc, atc, ConcreteVals, rewritten, pathConstraint, result, returned,
                   error, atc0, iterations, seeRuns, solveCalls, apiCalls, minted, assumed>>
    /\ UNCHANGED genVars
    /\ UNCHANGED functionFactory
    /\ UNCHANGED formula

\* executeStmt, API call without factory: the arguments are evaluated, then
\* runtime_error("FunctionFactory not set in SEE") leaves executeStmt,
\* execute and generateCTC, none of which catches it
SeeApiCallNoFactory ==
    /\ atApiCall
    /\ functionFactory = "null"
    /\ LET r == evaluateArgs(rewritten[idx].right.args, sigma, symCount, <<>>)
       IN symCount' = r.count
    /\ pc' = "error"
    /\ error' = "FunctionFactory not set in SEE"
    /\ UNCHANGED <<atc, ConcreteVals, rewritten, sigma, pathConstraint, idx, result,
                   returned, histVars>>
    /\ UNCHANGED genVars
    /\ UNCHANGED functionFactory
    /\ UNCHANGED formula

\* executeStmt, API call whose factory or function throws: the exception
\* leaves executeStmt before sigma.setValue
SeeApiCallThrows ==
    /\ atApiCall
    /\ functionFactory = "throwing"
    /\ LET stmt == rewritten[idx]
           r == evaluateArgs(stmt.right.args, sigma, symCount, <<>>)
       IN /\ symCount' = r.count
          /\ apiCalls' = Append(apiCalls,
                                [stmt |-> idx, name |-> stmt.right.name, args |-> r.val])
    /\ pc' = "error"
    /\ error' \in factoryErrors
    /\ UNCHANGED <<atc, ConcreteVals, rewritten, sigma, pathConstraint, idx, result,
                   returned, atc0, iterations, seeRuns, solveCalls, minted, assumed,
                   executed>>
    /\ UNCHANGED genVars
    /\ UNCHANGED functionFactory
    /\ UNCHANGED formula

\* executeStmt, ASSUME
SeeAssume ==
    /\ atStmt
    /\ LET stmt == rewritten[idx] IN
       /\ isReady(stmt, sigma)
       /\ stmt.t = "ASSUME"
       /\ LET r == evaluateExpr(stmt.expr, sigma, symCount) IN
          /\ pathConstraint' = Append(pathConstraint, r.val)
          /\ symCount' = r.count
    /\ idx' = idx + 1
    /\ assumed' = assumed \cup {idx}
    /\ UNCHANGED <<pc, atc, ConcreteVals, rewritten, sigma, result, returned,
                   error, atc0, iterations, seeRuns, solveCalls, apiCalls, minted>>
    /\ executed' = Append(executed, idx)
    /\ UNCHANGED genVars
    /\ UNCHANGED functionFactory
    /\ UNCHANGED formula

\* mutant of SeeInterrupt: a statement that is not ready is skipped
SeeInterruptSkips ==
    /\ atStmt
    /\ ~isReady(rewritten[idx], sigma)
    /\ idx' = idx + 1
    /\ UNCHANGED <<pc, atc, ConcreteVals, rewritten, sigma, pathConstraint, symCount,
                   result, returned, error, histVars>>
    /\ UNCHANGED genVars
    /\ UNCHANGED functionFactory
    /\ UNCHANGED formula

\* the statement is not ready: break
SeeInterrupt ==
    /\ atStmt
    /\ ~isReady(rewritten[idx], sigma)
    /\ pc' = "solve"
    /\ UNCHANGED <<atc, ConcreteVals, rewritten, seeVars, result, returned, error,
                   histVars>>
    /\ UNCHANGED genVars
    /\ UNCHANGED functionFactory
    /\ UNCHANGED formula

\* the loop ran off the end of the program
SeeEnd ==
    /\ pc = "symex"
    /\ idx > Len(rewritten)
    /\ pc' = "solve"
    /\ UNCHANGED <<atc, ConcreteVals, rewritten, seeVars, result, returned, error,
                   histVars>>
    /\ UNCHANGED genVars
    /\ UNCHANGED functionFactory
    /\ UNCHANGED formula

(***************************************************************************)
(* generateCTC, after the symbolic execution                               *)
(***************************************************************************)
\* result = solver.solve(see.computePathConstraint())
GenSolve ==
    /\ pc = "solve"
    /\ formula' = computePathConstraint(pathConstraint)
    /\ \E out \in solve(formula') :
          IF out.threw
          THEN /\ pc' = "error"
               /\ error' = out.what
               /\ UNCHANGED result
          ELSE /\ pc' = "solved"
               /\ result' = out.val
               /\ UNCHANGED error
    /\ solveCalls' = solveCalls + 1
    /\ UNCHANGED <<atc, ConcreteVals, rewritten, seeVars, returned,
                   atc0, iterations, seeRuns, apiCalls, minted, assumed, executed>>
    /\ UNCHANGED genVars
    /\ UNCHANGED functionFactory

\* if(newConcreteVals.empty()) return rewritten;
GenReturnRewritten ==
    /\ pc = "solved"
    /\ noProgress(newConcreteVals(result))
    /\ pc' = "done"
    /\ returned' = rewritten
    /\ UNCHANGED <<atc, ConcreteVals, rewritten, seeVars, result, error, histVars>>
    /\ UNCHANGED genVars
    /\ UNCHANGED functionFactory
    /\ UNCHANGED formula

\* return generateCTC(std::move(rewritten), newConcreteVals, ve);
GenRecurse ==
    /\ pc = "solved"
    /\ ~noProgress(newConcreteVals(result))
    /\ pc' = "entry"
    /\ atc' = rewritten
    /\ ConcreteVals' = newConcreteVals(result)
    /\ UNCHANGED <<rewritten, seeVars, result, returned, error, histVars>>
    /\ UNCHANGED genVars
    /\ UNCHANGED functionFactory
    /\ UNCHANGED formula

Next ==
    \/ GenReturnConcrete
    \/ GenRewrite
    \/ SeeBegin
    \/ SeeAssign
    \/ SeeApiCall
    \/ SeeAssume
    \/ SeeInterrupt
    \/ SeeEnd
    \/ GenSolve
    \/ GenReturnRewritten
    \/ GenRecurse

Spec == Init /\ [][Next]_vars

(***************************************************************************)
(* generateCTC with a Tester whose executor has no factory, a factory      *)
(* whose functions may throw, or a factory whose functions return.         *)
(***************************************************************************)
FactoryStatements ==
    { Assign(Var("x"), input),
      Assign(Var("x"), Num(1)),
      Assume(GtX),
      Assume(LtX),
      Assign(Var("r"), FuncCall("f", <<Var("x")>>)) }

FactoryPrograms == {prog \in SeqsUpTo(FactoryStatements, MaxLen) : WellFormed(prog)}

FunctionFactories == {"set", "throwing", "null"}

InitFactory ==
    /\ pc = "entry"
    /\ atc \in FactoryPrograms
    /\ ConcreteVals = <<>>
    /\ rewritten = <<>>
    /\ sigma = emptySigma
    /\ pathConstraint = <<>>
    /\ symCount = 0
    /\ idx = 0
    /\ result = noResult
    /\ returned = <<>>
    /\ error = ""
    /\ atc0 = atc
    /\ iterations = 0
    /\ seeRuns = 0
    /\ solveCalls = 0
    /\ apiCalls = <<>>
    /\ minted = noMinted
    /\ assumed = {}
    /\ executed = <<>>
    /\ spec = noSpec
    /\ testString = <<>>
    /\ programStmts = <<>>
    /\ genJ = 0
    /\ genI = 0
    /\ emissions = <<>>
    /\ functionFactory \in FunctionFactories
    /\ formula = noFormula

NextFactory ==
    \/ GenReturnConcrete
    \/ GenRewrite
    \/ SeeBegin
    \/ SeeAssign
    \/ SeeApiCall
    \/ SeeApiCallNoFactory
    \/ SeeApiCallThrows
    \/ SeeAssume
    \/ SeeInterrupt
    \/ SeeEnd
    \/ GenSolve
    \/ GenReturnRewritten
    \/ GenRecurse

SpecFactory == InitFactory /\ [][NextFactory]_vars

(***************************************************************************)
(* Tester::rewriteATC called directly, as the rewriter tests call it.      *)
(***************************************************************************)
RewriteStatements ==
    { Assign(Var("x"), input),
      Assign(Var("y"), input),
      Assign(Var("x"), Num(0)),
      Assume(GtX),
      Assign(Var("r"), FuncCall("f", <<Var("x")>>)),
      AssertStmt(FuncCall("Eq", <<Var("r"), Var("x")>>)) }

RewritePrograms == SeqsUpTo(RewriteStatements, MaxLen)

ValueLists == SeqsUpTo({Num(v) : v \in Dom}, MaxVals)

InitRewrite ==
    /\ pc = "rw_call"
    /\ atc \in RewritePrograms
    /\ ConcreteVals \in ValueLists
    /\ rewritten = <<>>
    /\ sigma = emptySigma
    /\ pathConstraint = <<>>
    /\ symCount = 0
    /\ idx = 0
    /\ result = noResult
    /\ returned = <<>>
    /\ error = ""
    /\ atc0 = atc
    /\ iterations = 0
    /\ seeRuns = 0
    /\ solveCalls = 0
    /\ apiCalls = <<>>
    /\ minted = noMinted
    /\ assumed = {}
    /\ executed = <<>>
    /\ spec = noSpec
    /\ testString = <<>>
    /\ programStmts = <<>>
    /\ genJ = 0
    /\ genI = 0
    /\ emissions = <<>>
    /\ functionFactory = "set"
    /\ formula = noFormula

RewriteCall ==
    /\ pc = "rw_call"
    /\ pc' = "rw_done"
    /\ LET r == rewriteATC(atc, ConcreteVals)
       IN IF r.threw
          THEN error' = r.what /\ UNCHANGED rewritten
          ELSE rewritten' = r.val /\ UNCHANGED error
    /\ UNCHANGED <<atc, ConcreteVals, seeVars, result, returned, histVars>>
    /\ UNCHANGED genVars
    /\ UNCHANGED functionFactory
    /\ UNCHANGED formula

NextRewrite == RewriteCall

SpecRewrite == InitRewrite /\ [][NextRewrite]_vars

(***************************************************************************)
(* Properties of the CTC driver                                            *)
(***************************************************************************)
\* generateCTC returned, and the last answer of the solver was sat
ReturnedAfterSat == pc = "done" /\ solveCalls > 0 /\ result.isSat

\* the right-hand side of the last assignment to v before statement i
lastAssigned(prog, i, v) ==
    LET js == {j \in 1..(i - 1) : prog[j].t = "ASSIGN" /\ prog[j].left = Var(v)}
    IN prog[CHOOSE j \in js : \A k \in js : k <= j].right

\* every variable of e is bound to a literal when control reaches statement i
RECURSIVE literalBound(_, _, _)
literalBound(prog, i, e) ==
    CASE e.t = "VAR" -> lastAssigned(prog, i, e.name).t = "NUM"
      [] e.t = "FUNCCALL" -> \A k \in 1..Len(e.args) : literalBound(prog, i, e.args[k])
      [] OTHER -> TRUE

\* the value of e at statement i of a program, read off the literals the
\* program assigns
RECURSIVE literalValue(_, _, _)
literalValue(prog, i, e) ==
    CASE e.t = "NUM" -> e.value
      [] e.t = "VAR" -> lastAssigned(prog, i, e.name).value
      [] e.t = "FUNCCALL" ->
            LET a == literalValue(prog, i, e.args[1])
                b == literalValue(prog, i, e.args[2])
            IN CASE e.name = "Gt" -> a > b
                 [] e.name = "Lt" -> a < b
                 [] e.name = "Eq" -> a = b
                 [] e.name = "And" -> a /\ b

\* C1: when generateCTC returns after a satisfiable solve, every assume the
\* symbolic executor collected into the path constraint evaluates to true
\* under the literals that the returned program assigns to its replaced
\* input variables.
C1_LiteralsSatisfyAssumes ==
    ReturnedAfterSat =>
        \A i \in assumed :
            /\ literalBound(returned, i, returned[i].expr)
            /\ literalValue(returned, i, returned[i].expr)

\* a run that replaced an input statement, collected an assume about it and
\* returned after sat
C1_Witness ==
    /\ ReturnedAfterSat
    /\ assumed # {}
    /\ \E i \in 1..Len(returned) : isInputStmt(atc0[i]) /\ returned[i].right.t = "NUM"

\* C2: whenever generateCTC terminates after the solver answered sat, the
\* returned program contains no statement `v := input()`.
C2_NoInputAfterSat ==
    ReturnedAfterSat => \A i \in 1..Len(returned) : ~isInputStmt(returned[i])

\* C3: for an initial program with N input statements the driver takes at
\* most N+1 iterations of rewrite, symbolic execution and solve.
C3_AtMostNPlusOneIterations ==
    /\ iterations <= countInputs(atc0) + 1
    /\ seeRuns <= iterations
    /\ solveCalls <= seeRuns

\* a run that needed all N+1 iterations for N = 2 input statements
C3_Witness ==
    /\ pc = "done"
    /\ countInputs(atc0) = 2
    /\ iterations = 3
    /\ solveCalls = 3

C5_ValueOfOwnSymVar ==
    (pc = "rewritten" /\ iterations >= 2) =>
        \A i \in 1..Len(atc) :
            (isInputStmt(atc[i]) /\ ~isInputStmt(rewritten[i])) =>
                /\ i \in DOMAIN minted
                /\ symKey(minted[i]) \in DOMAIN result.model
                /\ rewritten[i].right = Num(result.model[symKey(minted[i])])

\* C6: generateCTC on a program without input statement returns the
\* program as it is, without symbolic execution, solver call or API
\* invocation.
C6_ConcreteProgramReturnedAsIs ==
    countInputs(atc0) = 0 =>
        /\ pc \in {"entry", "done"}
        /\ pc = "done" => returned = atc0
        /\ iterations = 0
        /\ seeRuns = 0
        /\ solveCalls = 0
        /\ apiCalls = <<>>
        /\ symCount \in InitialCounts

\* a program without input statement but with a real API call was returned
C6_Witness ==
    /\ pc = "done"
    /\ countInputs(atc0) = 0
    /\ \E i \in 1..Len(atc0) :
          atc0[i].t = "ASSIGN" /\ atc0[i].right.t = "FUNCCALL" /\ isAPI(atc0[i].right)

\* C7: after an unsat answer generateCTC returns the program of the current
\* rewrite step and does nothing else: no recursion, no further rewrite,
\* symbolic execution or solver call.
C7_UnsatReturnsRewritten ==
    [][(pc = "solved" /\ ~result.isSat) =>
          /\ pc' = "done"
          /\ returned' = rewritten
          /\ UNCHANGED <<iterations, seeRuns, solveCalls, apiCalls, rewritten>>]_vars

\* the driver returned after an unsat answer in its second iteration
C7_Witness ==
    /\ pc = "done"
    /\ solveCalls = 2
    /\ ~result.isSat
    /\ returned = rewritten

inputRank(prog, i) == Cardinality({j \in 1..i : isInputStmt(prog[j])})

\* C9: rewriteATC(program, L) replaces the k-th input statement by
\* `v := L[k]` for k up to the length of L, keeps the later input
\* statements, and emits every other statement unchanged at its position.
C9_RewriteReplacesFirstInputs ==
    (pc = "rw_done" /\ ~(Len(atc) = 0 /\ Len(ConcreteVals) # 0)) =>
        /\ error = ""
        /\ Len(rewritten) = Len(atc)
        /\ \A i \in 1..Len(atc) :
              IF isInputStmt(atc[i]) /\ inputRank(atc, i) <= Len(ConcreteVals)
              THEN rewritten[i] = Assign(atc[i].left, ConcreteVals[inputRank(atc, i)])
              ELSE rewritten[i] = atc[i]

\* C10: rewriteATC throws for an empty program with a non-empty value list
\* and returns the empty program when both are empty.
C10_EmptyProgram ==
    (pc = "rw_done" /\ Len(atc) = 0) =>
        IF Len(ConcreteVals) # 0
        THEN error = "Empty test case but concrete values provided"
        ELSE error = "" /\ rewritten = <<>>

\* the rewriter was called with an empty program and values, and threw
C10_Witness ==
    /\ pc = "rw_done"
    /\ Len(atc) = 0
    /\ Len(ConcreteVals) = 2
    /\ error # ""

(***************************************************************************)
(* SEE::execute called directly on a program, as the executor tests call   *)
(* it: the actions of the executor, without the driver around them.        *)
(***************************************************************************)
AnyY == FuncCall("Any", <<Var("y")>>)

\* a precondition that reads the global state through a real API
GtGetY == FuncCall("Gt", <<FuncCall("get_y", <<>>), Num(0)>>)

SeeStatements ==
    { Assign(Var("x"), input),
      Assign(Var("y"), input),
      Assign(Var("x"), Num(1)),
      Assign(Var("t"), FuncCall("Add", <<Var("x"), Num(1)>>)),
      Assign(Var("t"), Tuple(<<Var("x"), Num(1)>>)),
      Assume(GtX),
      Assume(GtGetY),
      Assume(AnyY),
      Assume(FuncCall("And", <<LtX, AnyY>>)),
      Assign(Var("r"), FuncCall("f", <<Var("x")>>)),
      Assign(Var("r"), FuncCall("f", <<Var("t")>>)),
      Assign(Var("r"), FuncCall("f", <<input>>)),
      AssertStmt(FuncCall("Eq", <<Var("r"), Var("x")>>)) }

SeePrograms == {prog \in SeqsUpTo(SeeStatements, MaxLen) : WellFormed(prog)}

InitSee ==
    /\ pc = "rewritten"
    /\ rewritten \in SeePrograms
    /\ atc = rewritten
    /\ ConcreteVals = <<>>
    /\ sigma = emptySigma
    /\ pathConstraint = <<>>
    /\ symCount = 0
    /\ idx = 0
    /\ result = noResult
    /\ returned = <<>>
    /\ error = ""
    /\ atc0 = atc
    /\ iterations = 0
    /\ seeRuns = 0
    /\ solveCalls = 0
    /\ apiCalls = <<>>
    /\ minted = noMinted
    /\ assumed = {}
    /\ executed = <<>>
    /\ spec = noSpec
    /\ testString = <<>>
    /\ programStmts = <<>>
    /\ genJ = 0
    /\ genI = 0
    /\ emissions = <<>>
    /\ functionFactory = "set"
    /\ formula = noFormula

NextSee ==
    \/ SeeBegin
    \/ SeeAssign
    \/ SeeApiCall
    \/ SeeAssume
    \/ SeeInterrupt
    \/ SeeEnd

SpecSee == InitSee /\ [][NextSee]_vars

(***************************************************************************)
(* Properties of the symbolic executor                                     *)
(***************************************************************************)
\* C11: execute runs the statements strictly in program order and stops at
\* the first statement that is not ready: every statement it runs is the one
\* right after the statements already run and is ready when it runs, sigma,
\* the path constraint and the factory are only touched by running a
\* statement, and when the loop is left either the whole program has run or
\* the next statement is not ready; nothing is run after that.
C11_InOrderUntilNotReady ==
    [][ /\ (pc = "symex" /\ executed' # executed) =>
              /\ executed' = Append(executed, Len(executed) + 1)
              /\ isReady(rewritten[Len(executed) + 1], sigma)
        /\ (pc = "symex" /\ (sigma' # sigma \/ pathConstraint' # pathConstraint
                                \/ apiCalls' # apiCalls)) =>
              executed' # executed
        /\ (pc = "symex" /\ pc' = "solve") =>
              \/ Len(executed) = Len(rewritten)
              \/ ~isReady(rewritten[Len(executed) + 1], sigma)
        /\ (pc = "solve") =>
              UNCHANGED <<sigma, pathConstraint, apiCalls, executed>>
      ]_vars

\* execute stopped in the middle of a program: statements were run, an
\* assume was collected, and two or more statements were left alone
C11_Witness ==
    /\ pc = "solve"
    /\ Len(executed) > 0
    /\ Len(pathConstraint) > 0
    /\ Len(executed) + 2 <= Len(rewritten)

RECURSIVE containsSymVar(_)
containsSymVar(e) ==
    CASE e.t = "SYMVAR" -> TRUE
      [] e.t = "FUNCCALL" -> \E k \in 1..Len(e.args) : containsSymVar(e.args[k])
      [] e.t = "TUPLE" -> \E k \in 1..Len(e.exprs) : containsSymVar(e.exprs[k])
      [] OTHER -> FALSE

\* C12: no argument handed to the function factory contains a symbolic
\* variable.
C12_FactoryArgsConcrete ==
    \A c \in 1..Len(apiCalls) :
        \A a \in 1..Len(apiCalls[c].args) : ~containsSymVar(apiCalls[c].args[a])

RECURSIVE containsAnyOf(_, _)
\* e is or contains Any(v) with v bound to a symbolic variable in sig
containsAnyOf(e, sig) ==
    IF e.t # "FUNCCALL" THEN FALSE
    ELSE \/ /\ e.name = "Any"
            /\ Len(e.args) = 1
            /\ e.args[1].t = "VAR"
            /\ e.args[1].name \in DOMAIN sig
            /\ sig[e.args[1].name].t = "SYMVAR"
         \/ \E k \in 1..Len(e.args) : containsAnyOf(e.args[k], sig)

\* C19: an assume whose expression is or contains Any(v), v bound to a
\* symbolic variable, is ready when execute reaches it.
C19_AnyAssumeIsReady ==
    (atStmt /\ rewritten[idx].t = "ASSUME" /\ containsAnyOf(rewritten[idx].expr, sigma))
        => isReady(rewritten[idx], sigma)

CloneLeaves == {Var("x"), Num(1), SymVar(0), SymVar(7)}

CloneExprs ==
    CloneLeaves
        \cup {FuncCall("f", <<a, b>>) : a, b \in CloneLeaves}
        \cup {Tuple(<<a>>) : a \in CloneLeaves}
        \cup {input}

CloneStatements ==
    {Assign(Var("r"), e) : e \in CloneExprs}
        \cup {Assume(e) : e \in CloneExprs}
        \cup {AssertStmt(e) : e \in CloneExprs}

InitClone ==
    /\ pc = "clone_call"
    /\ atc \in {<<node>> : node \in CloneStatements}
    /\ ConcreteVals = <<>>
    /\ rewritten = <<>>
    /\ sigma = emptySigma
    /\ pathConstraint = <<>>
    /\ symCount \in InitialCounts
    /\ idx = 0
    /\ result = noResult
    /\ returned = <<>>
    /\ error = ""
    /\ atc0 = atc
    /\ iterations = 0
    /\ seeRuns = 0
    /\ solveCalls = 0
    /\ apiCalls = <<>>
    /\ minted = noMinted
    /\ assumed = {}
    /\ executed = <<>>
    /\ spec = noSpec
    /\ testString = <<>>
    /\ programStmts = <<>>
    /\ genJ = 0
    /\ genI = 0
    /\ emissions = <<>>
    /\ functionFactory = "set"
    /\ formula = noFormula

\* cloner.cloneStmt(node): the clone, or the exception that left the call
CloneCall ==
    /\ pc = "clone_call"
    /\ pc' = "clone_done"
    /\ LET r == cloneStmt(atc[1])
       IN IF r.threw
          THEN error' = r.what /\ UNCHANGED rewritten
          ELSE rewritten' = <<r.val>> /\ UNCHANGED error
    /\ UNCHANGED <<atc, ConcreteVals, seeVars, result, returned, histVars>>
    /\ UNCHANGED genVars
    /\ UNCHANGED functionFactory
    /\ UNCHANGED formula

NextClone == CloneCall

SpecClone == InitClone /\ [][NextClone]_vars

\* C20: cloning any statement succeeds and returns a structurally equal
\* copy, symbolic-variable numbers included, and leaves the SymVar counter
\* where it was.
C20_CloneStmtTotal ==
    [][pc = "clone_call" => (error' = "" /\ rewritten' = atc /\ symCount' = symCount)]_vars

(***************************************************************************)
(* ATCGenerator.  A null expression pointer is the record NoExpr; a block  *)
(* carries the keys of its child symbol table (the i-th child of the       *)
(* global table belongs to the i-th block).                                *)
(***************************************************************************)
MaxPad == 9        \* most blocks between the two blocks of interest
MaxScenario == 2   \* longest scenario

NoExpr == [t |-> "NULL"]

API(name, pre, call, callResponse, response, symTable) ==
    [name |-> name, pre |-> pre,
     call |-> [call |-> call, response |-> callResponse],
     response |-> response, symTable |-> symTable]

\* Env::hasKey on the block's own table, no walk to the parent
hasKey(symTable, name) == name \in symTable

RECURSIVE convertExpr(_, _, _)
convertExpr(expr, symTable, suffix) ==
    CASE expr.t = "NULL" -> NoExpr
      [] expr.t = "VAR" ->
            IF hasKey(symTable, expr.name) THEN Var(expr.name \o suffix)
            ELSE Var(expr.name)
      [] expr.t = "FUNCCALL" ->
            FuncCall(expr.name,
                     [k \in 1..Len(expr.args) |-> convertExpr(expr.args[k], symTable, suffix)])
      [] expr.t = "NUM" -> Num(expr.value)
      [] expr.t = "TUPLE" ->
            Tuple([k \in 1..Len(expr.exprs) |-> convertExpr(expr.exprs[k], symTable, suffix)])
      [] OTHER -> NoExpr

\* mutant of extractPrimedVars: only a prime at the root is seen
extractPrimedVarsRootOnly(expr) ==
    IF expr.t = "FUNCCALL" /\ expr.name = "'" /\ Len(expr.args) > 0
          /\ expr.args[1].t = "VAR"
    THEN {expr.args[1].name}
    ELSE {}

RECURSIVE extractPrimedVars(_)
extractPrimedVars(expr) ==
    CASE expr.t = "FUNCCALL" ->
            IF expr.name = "'" /\ Len(expr.args) > 0
            THEN IF expr.args[1].t = "VAR" THEN {expr.args[1].name} ELSE {}
            ELSE UNION {extractPrimedVars(expr.args[k]) : k \in 1..Len(expr.args)}
      [] expr.t = "TUPLE" ->
            UNION {extractPrimedVars(expr.exprs[k]) : k \in 1..Len(expr.exprs)}
      [] OTHER -> {}

\* mutant of removePrimeNotation: the prime operator is rebuilt like any call
RECURSIVE removePrimeNotationKeepsPrime(_, _, _)
removePrimeNotationKeepsPrime(expr, primedVars, insidePrime) ==
    CASE expr.t = "NULL" -> NoExpr
      [] expr.t = "VAR" ->
            IF insidePrime THEN Var(expr.name)
            ELSE IF expr.name \in primedVars THEN Var(expr.name \o "_old")
            ELSE Var(expr.name)
      [] expr.t = "FUNCCALL" ->
            FuncCall(expr.name,
                     [k \in 1..Len(expr.args) |->
                        removePrimeNotationKeepsPrime(expr.args[k], primedVars,
                                                      insidePrime \/ expr.name = "'")])
      [] expr.t = "NUM" -> Num(expr.value)
      [] expr.t = "TUPLE" ->
            Tuple([k \in 1..Len(expr.exprs) |->
                     removePrimeNotationKeepsPrime(expr.exprs[k], primedVars, insidePrime)])
      [] OTHER -> NoExpr

RECURSIVE removePrimeNotation(_, _, _)
removePrimeNotation(expr, primedVars, insidePrime) ==
    CASE expr.t = "NULL" -> NoExpr
      [] expr.t = "VAR" ->
            IF insidePrime THEN Var(expr.name)
            ELSE IF expr.name \in primedVars THEN Var(expr.name \o "_old")
            ELSE Var(expr.name)
      [] expr.t = "FUNCCALL" ->
            IF expr.name = "'" /\ Len(expr.args) > 0
            THEN removePrimeNotation(expr.args[1], primedVars, TRUE)
            ELSE FuncCall(expr.name,
                          [k \in 1..Len(expr.args) |->
                             removePrimeNotation(expr.args[k], primedVars, insidePrime)])
      [] expr.t = "NUM" -> Num(expr.value)
      [] expr.t = "TUPLE" ->
            Tuple([k \in 1..Len(expr.exprs) |->
                     removePrimeNotation(expr.exprs[k], primedVars, insidePrime)])
      [] OTHER -> NoExpr

RECURSIVE collectInputVars(_, _, _)
RECURSIVE collectInputVarsOfAll(_, _, _, _)
\* the loops of collectInputVars over the components, left to right
collectInputVarsOfAll(exprs, suffix, symTable, k) ==
    IF k > Len(exprs) THEN <<>>
    ELSE collectInputVars(exprs[k], suffix, symTable)
            \o collectInputVarsOfAll(exprs, suffix, symTable, k + 1)

\* the names pushed to inputVars, in the order they are pushed
collectInputVars(expr, suffix, symTable) ==
    CASE expr.t = "VAR" ->
            IF hasKey(symTable, expr.name) THEN <<expr.name \o suffix>> ELSE <<>>
      [] expr.t = "FUNCCALL" -> collectInputVarsOfAll(expr.args, suffix, symTable, 1)
      [] expr.t = "TUPLE" -> collectInputVarsOfAll(expr.exprs, suffix, symTable, 1)
      [] OTHER -> <<>>

\* the deduplication loop of genBlock: first occurrences, in order
RECURSIVE dedup(_, _, _)
dedup(rawInputVars, k, inputVars) ==
    IF k > Len(rawInputVars) THEN inputVars
    ELSE IF \E m \in 1..Len(inputVars) : inputVars[m] = rawInputVars[k]
         THEN dedup(rawInputVars, k + 1, inputVars)
         ELSE dedup(rawInputVars, k + 1, Append(inputVars, rawInputVars[k]))

makeInputStmt(name) == Assign(Var(name), input)

\* std::set<string> iterates in ascending order of the names; NameOrder
\* lists the unsuffixed names of the model in that order
NameOrder == <<"U", "V", "r", "x", "x1", "y">>

inSetOrder(names) ==
    LET keep(n) == n \in names IN SelectSeq(NameOrder, keep)

\* genInit: one Assign per initializer, converted with no local scope
genInit(sp) ==
    [k \in 1..Len(sp.init) |->
        Assign(Var(sp.init[k].varName), convertExpr(sp.init[k].expr, {}, ""))]

\* mutant of inputStmts: the precondition is not searched for inputs
inputStmtsOfArgsOnly(block, blockSymTable, suffix) ==
    LET rawInputVars ==
            collectInputVarsOfAll(block.call.call.args, suffix, blockSymTable, 1)
        inputVars == dedup(rawInputVars, 1, <<>>)
    IN [k \in 1..Len(inputVars) |-> makeInputStmt(inputVars[k])]

\* genBlock, steps 1 and 2: the input statements
inputStmts(block, blockSymTable, suffix) ==
    LET rawInputVars ==
            collectInputVarsOfAll(block.call.call.args, suffix, blockSymTable, 1)
                \o (IF block.pre.t # "NULL"
                    THEN collectInputVars(block.pre, suffix, blockSymTable)
                    ELSE <<>>)
        inputVars == dedup(rawInputVars, 1, <<>>)
    IN [k \in 1..Len(inputVars) |-> makeInputStmt(inputVars[k])]

\* genBlock, step 3: the assume of the precondition
assumeStmts(block, blockSymTable, suffix) ==
    IF block.pre.t # "NULL"
    THEN <<Assume(convertExpr(block.pre, blockSymTable, suffix))>>
    ELSE <<>>

\* genBlock, step 4: the primed variables of the postcondition
primedVarsOf(block) ==
    IF block.response.t # "NULL" THEN extractPrimedVars(block.response) ELSE {}

\* genBlock, step 5: U_old := U for each primed variable
oldStmts(block) ==
    LET order == inSetOrder(primedVarsOf(block))
    IN [k \in 1..Len(order) |-> Assign(Var(order[k] \o "_old"), Var(order[k]))]

\* genBlock, step 6: the API call statement
callStmts(block, blockSymTable, suffix) ==
    LET args == block.call.call.args
        convertedCall ==
            FuncCall(block.call.call.name,
                     [k \in 1..Len(args) |-> convertExpr(args[k], blockSymTable, suffix)])
        returnVar ==
            IF block.call.response.t # "NULL"
            THEN convertExpr(block.call.response, blockSymTable, suffix)
            ELSE Var("_result" \o suffix)
    IN <<Assign(returnVar, convertedCall)>>

\* mutant of assertStmts: no global is taken as primed
assertStmtsWithoutSnapshots(block, blockSymTable, suffix) ==
    IF block.response.t # "NULL"
    THEN <<AssertStmt(removePrimeNotation(
                         convertExpr(block.response, blockSymTable, suffix),
                         {}, FALSE))>>
    ELSE <<>>

\* genBlock, step 7: the assert of the postcondition without primes
assertStmts(block, blockSymTable, suffix) ==
    IF block.response.t # "NULL"
    THEN <<AssertStmt(removePrimeNotation(
                         convertExpr(block.response, blockSymTable, suffix),
                         primedVarsOf(block), FALSE))>>
    ELSE <<>>

\* mutant of genBlock: the API call is emitted before the snapshots
genBlockCallBeforeOld(block, blockSymTable, blockIndex) ==
    LET suffix == ToString(blockIndex)
    IN inputStmts(block, blockSymTable, suffix)
          \o assumeStmts(block, blockSymTable, suffix)
          \o callStmts(block, blockSymTable, suffix)
          \o oldStmts(block)
          \o assertStmts(block, blockSymTable, suffix)

genBlock(block, blockSymTable, blockIndex) ==
    LET suffix == ToString(blockIndex)
    IN inputStmts(block, blockSymTable, suffix)
          \o assumeStmts(block, blockSymTable, suffix)
          \o oldStmts(block)
          \o callStmts(block, blockSymTable, suffix)
          \o assertStmts(block, blockSymTable, suffix)

(***************************************************************************)
(* The specifications and scenarios handed to the generator                *)
(***************************************************************************)
PrimeU == FuncCall("'", <<Var("U")>>)

PrimeV == FuncCall("'", <<Var("V")>>)

\* the next-state value of an expression over a global and a parameter
PrimeAddUx == FuncCall("'", <<FuncCall("Add", <<Var("U"), Var("x")>>)>>)

BlockPool ==
    { API("f", GtX, FuncCall("f", <<Var("x")>>), Var("r"),
          FuncCall("Eq", <<Var("r"), Var("x")>>), {"x"}),
      API("f", NoExpr, FuncCall("f", <<Var("x1")>>), NoExpr, NoExpr, {"x1"}),
      API("g", FuncCall("And", <<LtX, AnyY>>), FuncCall("g", <<Var("x")>>), NoExpr,
          Tuple(<<Num(200),
                  FuncCall("Eq", <<PrimeU, FuncCall("Add", <<Var("U"), Var("x")>>)>>)>>),
          {"x", "y"}),
      API("g", NoExpr, FuncCall("g", <<>>), Var("r"),
          FuncCall("And", <<FuncCall("Eq", <<PrimeU, Var("U")>>),
                            FuncCall("Eq", <<PrimeV, Num(0)>>)>>),
          {}),
      API("h", NoExpr, FuncCall("h", <<Var("x")>>), Var("r"),
          FuncCall("And", <<FuncCall("Eq", <<PrimeU, FuncCall("Add", <<Var("U"), Var("V")>>)>>),
                            FuncCall("Gt", <<PrimeAddUx, Var("r")>>)>>),
          {"x", "r"}) }

\* a block of no interest: no parameter, no condition
filler == API("nop", NoExpr, FuncCall("nop", <<>>), NoExpr, NoExpr, {})

Pad(k) == [n \in 1..k |-> filler]

SpecBlocks ==
    {<<>>}
        \cup {<<a>> : a \in BlockPool}
        \cup {<<a>> \o Pad(k) \o <<b>> : a \in BlockPool, b \in BlockPool, k \in 0..MaxPad}

SpecInits == {<<>>, <<[varName |-> "U", expr |-> Num(0)]>>}

Specs == {[init |-> in, blocks |-> bl] : in \in SpecInits, bl \in SpecBlocks}

ScenarioNames == {"f", "g", "h"}

Scenarios == SeqsUpTo(ScenarioNames, MaxScenario)

InitGen ==
    /\ pc = "gen_call"
    /\ spec \in Specs
    /\ testString \in Scenarios
    /\ programStmts = <<>>
    /\ genJ = 0
    /\ genI = 0
    /\ emissions = <<>>
    /\ atc = <<>>
    /\ ConcreteVals = <<>>
    /\ rewritten = <<>>
    /\ sigma = emptySigma
    /\ pathConstraint = <<>>
    /\ symCount = 0
    /\ idx = 0
    /\ result = noResult
    /\ returned = <<>>
    /\ error = ""
    /\ atc0 = <<>>
    /\ iterations = 0
    /\ seeRuns = 0
    /\ solveCalls = 0
    /\ apiCalls = <<>>
    /\ minted = noMinted
    /\ assumed = {}
    /\ executed = <<>>
    /\ functionFactory = "set"
    /\ formula = noFormula

ctcVars == <<atc, ConcreteVals, rewritten, sigma, pathConstraint, symCount, idx,
             result, error, histVars, functionFactory, formula>>

(***************************************************************************)
(* ATCGenerator::generate, one step per pair (scenario name, block)        *)
(***************************************************************************)
\* Step 1: the initialization block
AtcInit ==
    /\ pc = "gen_call"
    /\ pc' = "gen_loop"
    /\ programStmts' = genInit(spec)
    /\ genJ' = 1
    /\ genI' = 1
    /\ UNCHANGED <<spec, testString, emissions, returned, ctcVars>>

atBlock ==
    pc = "gen_loop" /\ genJ <= Len(testString) /\ genI <= Len(spec.blocks)

\* testString[j] != spec->blocks[i]->name: continue
AtcSkipBlock ==
    /\ atBlock
    /\ testString[genJ] # spec.blocks[genI].name
    /\ genI' = genI + 1
    /\ UNCHANGED <<pc, spec, testString, programStmts, genJ, emissions, returned, ctcVars>>

\* mutant of AtcEmitBlock: the inner loop is left after the first match
AtcEmitBlockFirstMatchOnly ==
    /\ atBlock
    /\ testString[genJ] = spec.blocks[genI].name
    /\ LET block == spec.blocks[genI]
           blockStmts == genBlock(block, block.symTable, genI - 1)
       IN /\ programStmts' = programStmts \o blockStmts
          /\ emissions' = Append(emissions,
                                 [block |-> genI - 1, first |-> Len(programStmts) + 1,
                                  count |-> Len(blockStmts)])
    /\ genI' = Len(spec.blocks) + 1
    /\ UNCHANGED <<pc, spec, testString, genJ, returned, ctcVars>>

\* the names match: the statements of genBlock are appended.  The child
\* table of the block exists (the children of the global table are parallel
\* to the blocks), so the test of blockSymTable succeeds.
AtcEmitBlock ==
    /\ atBlock
    /\ testString[genJ] = spec.blocks[genI].name
    /\ LET block == spec.blocks[genI]
           blockStmts == genBlock(block, block.symTable, genI - 1)
       IN /\ programStmts' = programStmts \o blockStmts
          /\ emissions' = Append(emissions,
                                 [block |-> genI - 1, first |-> Len(programStmts) + 1,
                                  count |-> Len(blockStmts)])
    /\ genI' = genI + 1
    /\ UNCHANGED <<pc, spec, testString, genJ, returned, ctcVars>>

\* the inner loop ran over all blocks: next scenario name
AtcNextName ==
    /\ pc = "gen_loop"
    /\ genJ <= Len(testString)
    /\ genI > Len(spec.blocks)
    /\ genJ' = genJ + 1
    /\ genI' = 1
    /\ UNCHANGED <<pc, spec, testString, programStmts, emissions, returned, ctcVars>>

\* return Program(std::move(programStmts))
AtcReturn ==
    /\ pc = "gen_loop"
    /\ genJ > Len(testString)
    /\ pc' = "gen_done"
    /\ returned' = programStmts
    /\ UNCHANGED <<spec, testString, programStmts, genJ, genI, emissions, ctcVars>>

NextGen ==
    \/ AtcInit
    \/ AtcSkipBlock
    \/ AtcEmitBlock
    \/ AtcNextName
    \/ AtcReturn

SpecGen == InitGen /\ [][NextGen]_vars

(***************************************************************************)
(* Properties of the ATC generator                                         *)
(***************************************************************************)
\* the statements of one call of genBlock, and the block they came from
segment(e) == SubSeq(programStmts, e.first, e.first + e.count - 1)

blockOf(e) == spec.blocks[e.block + 1]

\* the place of a statement in the order of a block: 1 input, 2 assume,
\* 3 snapshot, 4 API call, 5 assert, 0 none of these
stmtRank(s, block) ==
    IF isInputStmt(s) THEN 1
    ELSE IF s.t = "ASSUME" THEN 2
    ELSE IF s.t = "ASSIGN" /\ s.left.t = "VAR" /\ s.right.t = "VAR"
               /\ s.left.name = s.right.name \o "_old" THEN 3
    ELSE IF s.t = "ASSIGN" /\ s.right.t = "FUNCCALL"
               /\ s.right.name = block.call.call.name THEN 4
    ELSE IF s.t = "ASSERT" THEN 5
    ELSE 0

ranksOf(e) == [k \in 1..e.count |-> stmtRank(segment(e)[k], blockOf(e))]

\* C13: every emitted block is: input statements, the assume of the
\* precondition if there is one, the G_old := G snapshots, exactly one
\* API-call Assign, the assert of the postcondition if there is one.
C13_BlockOrder ==
    \A n \in 1..Len(emissions) :
        LET e == emissions[n]
            rank == ranksOf(e)
        IN /\ \A k \in 1..e.count : rank[k] # 0
           /\ \A k, m \in 1..e.count : k < m => rank[k] <= rank[m]
           /\ Cardinality({k \in 1..e.count : rank[k] = 4}) = 1
           /\ Cardinality({k \in 1..e.count : rank[k] = 2})
                 = (IF blockOf(e).pre.t # "NULL" THEN 1 ELSE 0)
           /\ Cardinality({k \in 1..e.count : rank[k] = 5})
                 = (IF blockOf(e).response.t # "NULL" THEN 1 ELSE 0)

\* a block with all five kinds of statement was emitted
C13_Witness ==
    /\ pc = "gen_done"
    /\ \E n \in 1..Len(emissions) :
          {ranksOf(emissions[n])[k] : k \in 1..emissions[n].count} = {1, 2, 3, 4, 5}

RECURSIVE primedIn(_)
\* the names G with '(G) a sub-expression of e
primedIn(e) ==
    CASE e.t = "FUNCCALL" ->
            (IF e.name = "'" /\ Len(e.args) = 1 /\ e.args[1].t = "VAR"
             THEN {e.args[1].name} ELSE {})
                \cup UNION {primedIn(e.args[k]) : k \in 1..Len(e.args)}
      [] e.t = "TUPLE" -> UNION {primedIn(e.exprs[k]) : k \in 1..Len(e.exprs)}
      [] OTHER -> {}

\* C14: for every G primed in the postcondition of an emitted block, the
\* block holds G_old := G at a position before its API-call statement.
C14_SnapshotBeforeCall ==
    \A n \in 1..Len(emissions) :
        LET e == emissions[n]
            seg == segment(e)
        IN \A G \in primedIn(blockOf(e).response) :
              \E k, m \in 1..e.count :
                 /\ seg[k] = Assign(Var(G \o "_old"), Var(G))
                 /\ stmtRank(seg[m], blockOf(e)) = 4
                 /\ k < m

\* a block whose postcondition primes two globals was emitted
C14_Witness ==
    /\ pc = "gen_done"
    /\ \E n \in 1..Len(emissions) :
          Cardinality(primedIn(blockOf(emissions[n]).response)) = 2

RECURSIVE containsPrime(_)
containsPrime(e) ==
    CASE e.t = "FUNCCALL" ->
            e.name = "'" \/ \E k \in 1..Len(e.args) : containsPrime(e.args[k])
      [] e.t = "TUPLE" -> \E k \in 1..Len(e.exprs) : containsPrime(e.exprs[k])
      [] OTHER -> FALSE

inputNames(e) ==
    {segment(e)[k].left.name : k \in {m \in 1..e.count : isInputStmt(segment(e)[m])}}

\* C16: the input names introduced for two blocks of different index are
\* disjoint.
C16_DisjointAcrossBlocks ==
    \A a, b \in 1..Len(emissions) :
        emissions[a].block # emissions[b].block =>
            inputNames(emissions[a]) \cap inputNames(emissions[b]) = {}

\* C17: the input names of any two block emissions are disjoint, two
\* emissions of the same block included.
C17_DisjointAcrossEmissions ==
    \A a, b \in 1..Len(emissions) :
        a # b => inputNames(emissions[a]) \cap inputNames(emissions[b]) = {}

RECURSIVE expectedBlocks(_, _)
\* the indices of the blocks whose name equals the scenario name, for each
\* scenario name in order, from the pair (j, i) on
expectedBlocks(j, i) ==
    IF j > Len(testString) THEN <<>>
    ELSE IF i > Len(spec.blocks) THEN expectedBlocks(j + 1, 1)
    ELSE (IF spec.blocks[i].name = testString[j] THEN <<i - 1>> ELSE <<>>)
            \o expectedBlocks(j, i + 1)

C22_AssertDoesNotInterrupt ==
    (pc = "solve" /\ Len(executed) < Len(rewritten)) =>
        rewritten[Len(executed) + 1].t # "ASSERT"

\* execute is at an Assume, or at an Assign whose right-hand side is not a
\* real API call
atPlainStmt ==
    /\ atStmt
    /\ \/ rewritten[idx].t = "ASSUME"
       \/ /\ rewritten[idx].t = "ASSIGN"
          /\ ~(rewritten[idx].right.t = "FUNCCALL" /\ isAPI(rewritten[idx].right))

\* the expression that decides the readiness of such a statement
plainExpr == IF rewritten[idx].t = "ASSUME" THEN rewritten[idx].expr
             ELSE rewritten[idx].right

\* a call of a built-in function
isBuiltinCall(e) == e.t = "FUNCCALL" /\ ~isAPI(e)

\* every component of a call or tuple is ready
componentsReady(e, sig) ==
    IF e.t = "TUPLE" THEN \A i \in 1..Len(e.exprs) : isReadyExpr(e.exprs[i], sig)
    ELSE \A i \in 1..Len(e.args) : isReadyExpr(e.args[i], sig)

visitFuncCallNames == z3Binary \cup z3Unary \cup z3Ternary

RECURSIVE calledNames(_)
\* the function names called anywhere in an expression
calledNames(e) ==
    CASE e.t = "FUNCCALL" ->
            {e.name} \cup UNION {calledNames(e.args[i]) : i \in 1..Len(e.args)}
      [] e.t = "TUPLE" -> UNION {calledNames(e.exprs[i]) : i \in 1..Len(e.exprs)}
      [] OTHER -> {}

\* C24: a function name of the program under execution is classified as
\* built-in by the executor iff the operator translation of the solver
\* bridge recognises it or it is one of the special names input, Any and '.
C24_SameBuiltins ==
    \A k \in 1..Len(rewritten) :
        \A name \in calledNames(IF rewritten[k].t = "ASSIGN" THEN rewritten[k].right
                                 ELSE rewritten[k].expr) :
            (~isAPI(FuncCall(name, <<>>)))
                <=> (name \in visitFuncCallNames \cup {"input", "Any", "'"})

\* C25: every constraint execute collects calls only functions the solver
\* bridge translates, so that the translation of the path constraint does
\* not throw for the name of a real API.
C25_NoApiCallReachesSolver ==
    /\ \A k \in 1..Len(pathConstraint) :
          calledNames(pathConstraint[k]) \subseteq visitFuncCallNames
    /\ pc = "solve" => makeZ3InputOk(computePathConstraint(pathConstraint))


(***************************************************************************)
(* Further properties of the CTC driver                                    *)
(***************************************************************************)
\* C26: during one run of generateCTC no statement of the program is
\* invoked through the function factory more than once.
C26_ApiStatementInvokedOnce ==
    \A a, b \in 1..Len(apiCalls) :
        a # b => apiCalls[a].stmt # apiCalls[b].stmt

RECURSIVE instanceOf(_, _, _)
\* c is e with every bound variable replaced by its binding in sig
instanceOf(c, e, sig) ==
    CASE e.t = "VAR" -> c = (IF e.name \in DOMAIN sig THEN sig[e.name] ELSE e)
      [] e.t = "FUNCCALL" ->
            /\ c.t = "FUNCCALL"
            /\ c.name = e.name
            /\ Len(c.args) = Len(e.args)
            /\ \A i \in 1..Len(e.args) : instanceOf(c.args[i], e.args[i], sig)
      [] OTHER -> c = e

\* the Assumes among the statements the current execute has run
executedAssumes(ex, prog) == {k \in 1..Len(ex) : prog[ex[k]].t = "ASSUME"}

\* C27: execute starts from the empty path constraint, appends the
\* evaluated expression of each Assume it runs and nothing else, so that
\* the list holds one entry per Assume run by this call, in program order.
C27_OneEntryPerAssume ==
    [][ /\ pc = "rewritten" => pathConstraint' = <<>>
        /\ (pc = "symex" /\ executed' # executed) =>
              IF rewritten[idx].t = "ASSUME"
              THEN /\ Len(pathConstraint') = Len(pathConstraint) + 1
                   /\ SubSeq(pathConstraint', 1, Len(pathConstraint)) = pathConstraint
                   /\ instanceOf(pathConstraint'[Len(pathConstraint')],
                                 rewritten[idx].expr, sigma)
              ELSE pathConstraint' = pathConstraint
        /\ (pc # "rewritten" /\ executed' = executed) => pathConstraint' = pathConstraint
        /\ pc' \in {"symex", "solve"} =>
              Len(pathConstraint') = Cardinality(executedAssumes(executed', rewritten'))
      ]_vars

\* the second execute of a run has finished with the constraints of its own
\* two Assumes, in program order
C27_Witness ==
    /\ pc = "solve"
    /\ seeRuns = 2
    /\ Len(pathConstraint) = 2
    /\ pathConstraint[1].name = "Gt"
    /\ pathConstraint[2].name = "Lt"
    /\ Cardinality(executedAssumes(executed, rewritten)) = 2


(***************************************************************************)
(* Further properties of the ATC generator                                 *)
(***************************************************************************)
RECURSIVE withoutPrimes(_, _, _, _, _)
\* the postcondition e rewritten in one pass: a local gets the suffix, a
\* global of P outside every prime gets _old, '(E) becomes E
withoutPrimes(e, locals, suffix, P, inside) ==
    CASE e.t = "VAR" ->
            IF e.name \in locals THEN Var(e.name \o suffix)
            ELSE IF ~inside /\ e.name \in P THEN Var(e.name \o "_old")
            ELSE Var(e.name)
      [] e.t = "FUNCCALL" ->
            IF e.name = "'" /\ Len(e.args) = 1
            THEN withoutPrimes(e.args[1], locals, suffix, P, TRUE)
            ELSE FuncCall(e.name,
                          [k \in 1..Len(e.args) |->
                             withoutPrimes(e.args[k], locals, suffix, P, inside)])
      [] e.t = "TUPLE" ->
            Tuple([k \in 1..Len(e.exprs) |->
                     withoutPrimes(e.exprs[k], locals, suffix, P, inside)])
      [] OTHER -> e

\* the asserts of one emission
assertsOf(e) == LET isAssert(s) == s.t = "ASSERT" IN SelectSeq(segment(e), isAssert)

\* C28: the assert of an emitted block is its postcondition with the locals
\* renamed, every '(E) replaced by E, and a global G replaced by G_old at
\* its occurrences outside every prime exactly when '(G) occurs in the
\* postcondition; inside a prime no variable gets _old.
C28_AssertIsPostWithoutPrimes ==
    \A n \in 1..Len(emissions) :
        LET e == emissions[n]
            block == blockOf(e)
        IN block.response.t # "NULL" =>
              assertsOf(e) =
                 <<AssertStmt(withoutPrimes(block.response, block.symTable,
                                            ToString(e.block),
                                            primedIn(block.response), FALSE))>>

\* a block was emitted whose postcondition has the primed global U also
\* outside the prime and inside the prime of a compound expression
C28_Witness ==
    /\ pc = "gen_done"
    /\ \E n \in 1..Len(emissions) :
          /\ blockOf(emissions[n]).name = "h"
          /\ assertsOf(emissions[n]) =
                <<AssertStmt(
                    FuncCall("And",
                       <<FuncCall("Eq", <<Var("U"),
                                          FuncCall("Add", <<Var("U_old"), Var("V")>>)>>),
                         FuncCall("Gt", <<FuncCall("Add", <<Var("U"),
                                             Var("x" \o ToString(emissions[n].block))>>),
                                          Var("r" \o ToString(emissions[n].block))>>)>>))>>

RECURSIVE varsOf(_)
\* the variable names that occur in an expression
varsOf(e) ==
    CASE e.t = "VAR" -> {e.name}
      [] e.t = "FUNCCALL" -> UNION {varsOf(e.args[k]) : k \in 1..Len(e.args)}
      [] e.t = "TUPLE" -> UNION {varsOf(e.exprs[k]) : k \in 1..Len(e.exprs)}
      [] OTHER -> {}

\* the names v<suffix> of the locals of the block of an emission
suffixedLocals(e) == {v \o ToString(e.block) : v \in blockOf(e).symTable}

\* the suffixed locals read by the k-th statement of an emission: those of
\* the assume, of the arguments of the API call, of the assert
localsRead(e, k) ==
    LET s == segment(e)[k]
        rank == stmtRank(s, blockOf(e))
    IN (CASE rank = 2 -> varsOf(s.expr)
          [] rank = 4 -> varsOf(s.right)
          [] rank = 5 -> varsOf(s.expr)
          [] OTHER -> {}) \cap suffixedLocals(e)

MaxConstraints == 3   \* longest list of constraints

Constraints ==
    { FuncCall("Gt", <<SymVar(0), Num(0)>>),
      FuncCall("Lt", <<SymVar(1), Num(1)>>),
      FuncCall("Eq", <<FuncCall("Mul", <<SymVar(0), SymVar(1)>>), Num(2)>>),
      FuncCall("And", <<FuncCall("Lt", <<SymVar(0), Num(1)>>),
                        FuncCall("Any", <<SymVar(1)>>)>>),
      FuncCall("Eq", <<Num(1), Num(1)>>) }

InitConjoin ==
    /\ pc = "cpc_call"
    /\ pathConstraint \in SeqsUpTo(Constraints, MaxConstraints)
    /\ formula = noFormula
    /\ atc = <<>>
    /\ ConcreteVals = <<>>
    /\ rewritten = <<>>
    /\ sigma = emptySigma
    /\ symCount = 0
    /\ idx = 0
    /\ result = noResult
    /\ returned = <<>>
    /\ error = ""
    /\ atc0 = <<>>
    /\ iterations = 0
    /\ seeRuns = 0
    /\ solveCalls = 0
    /\ apiCalls = <<>>
    /\ minted = noMinted
    /\ assumed = {}
    /\ executed = <<>>
    /\ spec = noSpec
    /\ testString = <<>>
    /\ programStmts = <<>>
    /\ genJ = 0
    /\ genI = 0
    /\ emissions = <<>>
    /\ functionFactory = "set"

\* see.computePathConstraint(C)
ComputePathConstraintCall ==
    /\ pc = "cpc_call"
    /\ pc' = "cpc_done"
    /\ formula' = computePathConstraint(pathConstraint)
    /\ UNCHANGED <<atc, ConcreteVals, rewritten, seeVars, result, returned, error,
                   histVars>>
    /\ UNCHANGED genVars
    /\ UNCHANGED functionFactory

NextConjoin == ComputePathConstraintCall

SpecConjoin == InitConjoin /\ [][NextConjoin]_vars

RECURSIVE rightNested(_, _)
\* And(c_i, And(c_i+1, ... c_n)) for the constraints from the i-th on
rightNested(C, i) ==
    IF i = Len(C) THEN C[i]
    ELSE FuncCall("And", <<C[i], rightNested(C, i + 1)>>)

\* C30: computePathConstraint yields Eq(1, 1) for the empty list, the
\* constraint for a list of one, and for c_1..c_n, n >= 2, the right-nested
\* conjunction And(c_1, And(c_2, ... c_n)) in list order.
C30_RightNestedConjunction ==
    pc = "cpc_done" =>
        /\ Len(pathConstraint) = 0 => formula = FuncCall("Eq", <<Num(1), Num(1)>>)
        /\ Len(pathConstraint) = 1 => formula = pathConstraint[1]
        /\ Len(pathConstraint) >= 2 => formula = rightNested(pathConstraint, 1)

\* three different constraints were conjoined
C30_Witness ==
    /\ pc = "cpc_done"
    /\ Len(pathConstraint) = 3
    /\ Cardinality({pathConstraint[k] : k \in 1..3}) = 3
    /\ formula.name = "And"
    /\ formula.args[1] = pathConstraint[1]
    /\ formula.args[2].args[1] = pathConstraint[2]
    /\ formula.args[2].args[2] = pathConstraint[3]

====
